---------------------------- MODULE Spec2Model ----------------------------
(***************************************************************************)
(* Recurrence generation and ledger balance of the payment tracker.        *)
(*                                                                         *)
(* Dates are proleptic Gregorian ordinals (datetime.date.toordinal), so    *)
(* that timedelta arithmetic is integer arithmetic; the fields year,       *)
(* month, day are recovered from the ordinal.  A stored date is the ISO    *)
(* text written by date.isoformat(), modelled as the triple <<y, m, d>>    *)
(* and compared as SQLite compares the text: lexicographically.            *)
(* Amounts are whole numbers (the REAL column holds cents here).           *)
(***************************************************************************)
EXTENDS Integers, Sequences, FiniteSets, TLC

VARIABLES db,               \* rows of table transactions, in insertion order
          sqlite_sequence,  \* AUTOINCREMENT counter of table transactions
          call,             \* the operation last invoked and its arguments
          ret,              \* what that operation returned or raised
          prev              \* the persisted generate_instances call that
                            \* directly preceded the current one, if any

vars == <<db, sqlite_sequence, call, ret, prev>>

-----------------------------------------------------------------------------
(* Bounds of the model.                                                    *)

\* range_start is drawn from anchor - 1 .. anchor + MaxLag
MaxLag == 31
\* range_end is drawn from range_start - 1 .. range_start + MaxSpan
MaxSpan == 62
\* the table holds at most MaxRows rows
MaxRows == 3
\* constructor amounts are drawn from -MaxAmount .. MaxAmount
MaxAmount == 2
\* one bulk generation persists at most MaxInserts instances
MaxInserts == 6
\* a batch holds at most MaxBatch transactions
MaxBatch == 3
\* templates and one-time transactions entered between bulk calls
MaxTemplates == 2
\* the table hands out at most MaxIds row ids
MaxIds == 3
\* rows stored while transactions are created, updated and deleted
MaxStored == 2

-----------------------------------------------------------------------------
(* datetime.date                                                           *)

None == 0

IsLeap(y) == y % 4 = 0 /\ (y % 100 # 0 \/ y % 400 = 0)

DaysInMonth(y, m) ==
    IF m = 2 THEN (IF IsLeap(y) THEN 29 ELSE 28)
    ELSE IF m \in {4, 6, 9, 11} THEN 30 ELSE 31

DaysBeforeYear(y) ==
    (y - 1) * 365 + ((y - 1) \div 4) - ((y - 1) \div 100) + ((y - 1) \div 400)

DaysBeforeMonth(y, m) ==
    <<0, 31, 59, 90, 120, 151, 181, 212, 243, 273, 304, 334>>[m]
      + (IF m > 2 /\ IsLeap(y) THEN 1 ELSE 0)

\* date(y, m, d) raises ValueError unless the day exists in the month
DateExists(y, m, d) == m \in 1..12 /\ d >= 1 /\ d <= DaysInMonth(y, m)

date(y, m, d) == DaysBeforeYear(y) + DaysBeforeMonth(y, m) + d

\* 400 years are 146097 days
YearOf(n) ==
    LET e == (n * 400) \div 146097
    IN  CHOOSE y \in e..(e + 1) :
            DaysBeforeYear(y) < n /\ n <= DaysBeforeYear(y + 1)

MonthOf(n) ==
    LET y == YearOf(n)
        k == n - DaysBeforeYear(y)
    IN  CHOOSE m \in 1..12 :
            DaysBeforeMonth(y, m) < k /\ k <= DaysBeforeMonth(y, m) + DaysInMonth(y, m)

DayOf(n) ==
    LET y == YearOf(n)
        k == n - DaysBeforeYear(y)
        m == CHOOSE i \in 1..12 :
                DaysBeforeMonth(y, i) < k /\ k <= DaysBeforeMonth(y, i) + DaysInMonth(y, i)
    IN  k - DaysBeforeMonth(y, m)

\* date.isoformat() and date.fromisoformat(): the text YYYY-MM-DD
isoformat(n) == <<YearOf(n), MonthOf(n), DayOf(n)>>

fromisoformat(s) == date(s[1], s[2], s[3])

\* text comparison of two ISO dates, as in "WHERE date <= ?"
IsoLeq(a, b) ==
    \/ a[1] < b[1]
    \/ a[1] = b[1] /\ a[2] < b[2]
    \/ a[1] = b[1] /\ a[2] = b[2] /\ a[3] <= b[3]

\* current_date + relativedelta(months=1): same day of the next month,
\* clipped to that month's length
AddMonth(n) ==
    LET y  == YearOf(n)
        m  == MonthOf(n)
        ny == IF m = 12 THEN y + 1 ELSE y
        nm == IF m = 12 THEN 1 ELSE m + 1
        d  == DayOf(n)
    IN  date(ny, nm, IF d > DaysInMonth(ny, nm) THEN DaysInMonth(ny, nm) ELSE d)

\* first day of the following month, minus one day
LastDayOfMonth(n) ==
    LET y == YearOf(n)
        m == MonthOf(n)
        next_month == IF m = 12 THEN date(y + 1, 1, 1) ELSE date(y, m + 1, 1)
    IN  next_month - 1

Max(a, b) == IF a >= b THEN a ELSE b

SeqRange(s) == {s[i] : i \in 1..Len(s)}

-----------------------------------------------------------------------------
(* RecurrenceService._generate_dates                                       *)

Patterns == {"weekly", "biweekly", "monthly"}

\* while current_date <= range_end: append; current_date += step
RECURSIVE StepLoop_exclusive(_, _, _)
StepLoop_exclusive(current_date, step, range_end) ==
    IF current_date < range_end
    THEN <<current_date>> \o StepLoop_exclusive(current_date + step, step, range_end)
    ELSE <<>>

StepLoop_do_while(current_date, step, range_end) ==
    <<current_date>> \o StepLoop_exclusive(current_date + step, step, range_end + 1)

RECURSIVE StepLoop(_, _, _)
StepLoop(current_date, step, range_end) ==
    IF current_date <= range_end
    THEN <<current_date>> \o StepLoop(current_date + step, step, range_end)
    ELSE <<>>

\* the fast-forward of the weekly (step 7) and biweekly (step 14) branches
FastForward_no_catchup(start_date, step, range_start) ==
    IF start_date < range_start
    THEN start_date + ((range_start - start_date) \div step) * step
    ELSE start_date

FastForward(start_date, step, range_start) ==
    IF start_date < range_start
    THEN LET to_skip == (range_start - start_date) \div step
             current_date == start_date + to_skip * step
         IN  IF current_date < range_start THEN current_date + step
             ELSE current_date
    ELSE start_date

\* start_date.day == last day of start_date's month
UseLastDay(start_date) == DayOf(start_date) = DayOf(LastDayOfMonth(start_date))

\* try date(year, month, day) except ValueError: last day of that month
SetDayOrLast_28(current_date, day) ==
    IF DateExists(YearOf(current_date), MonthOf(current_date), day)
    THEN date(YearOf(current_date), MonthOf(current_date), day)
    ELSE date(YearOf(current_date), MonthOf(current_date), 28)

SetDayOrLast(current_date, day) ==
    IF DateExists(YearOf(current_date), MonthOf(current_date), day)
    THEN date(YearOf(current_date), MonthOf(current_date), day)
    ELSE LastDayOfMonth(current_date)

\* the first monthly occurrence
MonthlyFirst_from_anchor(start_date, range_start) == start_date

MonthlyFirst(start_date, range_start) ==
    LET use_last_day == UseLastDay(start_date)
        c0 == Max(start_date, range_start)
        c1 == IF DayOf(c0) # DayOf(start_date) /\ ~use_last_day
              THEN LET c == SetDayOrLast(c0, DayOf(start_date))
                   IN  IF c < range_start
                       THEN IF use_last_day
                            THEN LastDayOfMonth(AddMonth(c))
                            ELSE SetDayOrLast(AddMonth(c), DayOf(start_date))
                       ELSE c
              ELSE c0
    IN  IF start_date > c1 THEN start_date ELSE c1

\* one month further, on the anchor's day or on the last day
NextMonthly_plain(current_date, use_last_day, start_day) == AddMonth(current_date)

NextMonthly(current_date, use_last_day, start_day) ==
    IF use_last_day
    THEN LastDayOfMonth(AddMonth(current_date))
    ELSE SetDayOrLast(AddMonth(current_date), start_day)

RECURSIVE MonthlyLoop(_, _, _, _)
MonthlyLoop(current_date, use_last_day, start_day, range_end) ==
    IF current_date <= range_end
    THEN <<current_date>> \o
         MonthlyLoop(NextMonthly(current_date, use_last_day, start_day),
                     use_last_day, start_day, range_end)
    ELSE <<>>

_generate_dates(start_date, pattern, range_start, range_end) ==
    IF pattern = "weekly"
    THEN StepLoop(FastForward(start_date, 7, range_start), 7, range_end)
    ELSE IF pattern = "biweekly"
    THEN StepLoop(FastForward(start_date, 14, range_start), 14, range_end)
    ELSE IF pattern = "monthly"
    THEN MonthlyLoop(MonthlyFirst(start_date, range_start),
                     UseLastDay(start_date), DayOf(start_date), range_end)
    ELSE <<>>

-----------------------------------------------------------------------------
(* Transaction                                                             *)

PatternNone == "None"

\* Transaction._validate: the message of the ValueError raised, "" if none
Transaction_validate_template_unchecked(t) ==
    IF t.amount <= 0 THEN "Transaction amount must be positive"
    ELSE IF ~t.is_template
            /\ t.recurring_template_id # None /\ t.recurrence_pattern # PatternNone
         THEN "Instance transactions cannot have a recurrence_pattern"
         ELSE ""

Transaction_validate(t) ==
    IF t.amount <= 0 THEN "Transaction amount must be positive"
    ELSE IF t.is_template
    THEN IF t.recurring_template_id # None
         THEN "Template transactions cannot have a recurring_template_id"
         ELSE IF t.recurrence_pattern = PatternNone
         THEN "Template transactions must have a recurrence_pattern"
         ELSE ""
    ELSE IF t.recurring_template_id # None /\ t.recurrence_pattern # PatternNone
         THEN "Instance transactions cannot have a recurrence_pattern"
         ELSE ""

\* Transaction.__init__ up to the call of _validate
Transaction(d, amount, type, description, category, payee, recurring_template_id, is_template, recurrence_pattern, id) ==
    [id |-> id,
     date |-> d,
     amount |-> IF amount < 0 THEN 0 - amount ELSE amount,
     type |-> type,
     description |-> description,
     category |-> category,
     payee |-> payee,
     recurring_template_id |-> recurring_template_id,
     is_template |-> is_template,
     recurrence_pattern |-> recurrence_pattern]

\* Transaction.from_row / from_dict: the object built from a table row
from_row(row) ==
    Transaction(fromisoformat(row.date), row.amount, row.type, row.description,
                row.category, row.payee, row.recurring_template_id,
                row.is_template # 0, row.recurrence_pattern, row.id)

\* Transaction.get_signed_amount
get_signed_amount(t) == IF t.type = "deposit" THEN t.amount ELSE 0 - t.amount

-----------------------------------------------------------------------------
(* TransactionService                                                      *)

\* the column values bound by the INSERT of create_transaction
InsertedRow(transaction, rowid) ==
    [id |-> rowid,
     date |-> isoformat(transaction.date),
     amount |-> transaction.amount,
     type |-> transaction.type,
     description |-> transaction.description,
     category |-> transaction.category,
     payee |-> transaction.payee,
     recurring_template_id |-> transaction.recurring_template_id,
     is_template |-> IF transaction.is_template THEN 1 ELSE 0,
     recurrence_pattern |-> transaction.recurrence_pattern]

\* the CHECK constraints of table transactions
SchemaAccepts(row) ==
    /\ row.type \in {"deposit", "withdrawal"}
    /\ row.is_template \in {0, 1}
    /\ row.recurrence_pattern \in Patterns \cup {PatternNone}
    /\ \/ row.is_template = 1 /\ row.recurring_template_id = None
       \/ row.is_template = 0

\* ORDER BY date ASC, id ASC
RowBefore(a, b) ==
    \/ a.date # b.date /\ IsoLeq(a.date, b.date)
    \/ a.date = b.date /\ a.id < b.id

RECURSIVE InsertRow(_, _)
InsertRow(sorted, row) ==
    IF sorted = <<>> THEN <<row>>
    ELSE IF RowBefore(row, Head(sorted)) THEN <<row>> \o sorted
    ELSE <<Head(sorted)>> \o InsertRow(Tail(sorted), row)

RECURSIVE OrderByDateId(_)
OrderByDateId(rows) ==
    IF rows = <<>> THEN <<>>
    ELSE InsertRow(OrderByDateId(Tail(rows)), Head(rows))

\* get_transaction_instances: WHERE recurring_template_id = ? never matches
\* when the parameter or the column is NULL
get_transaction_instances_any(rows, template_id) ==
    LET selected == SelectSeq(rows, LAMBDA r : r.is_template = 0)
        ordered == OrderByDateId(selected)
    IN  [i \in 1..Len(ordered) |-> from_row(ordered[i])]

get_transaction_instances(rows, template_id) ==
    LET selected == SelectSeq(rows, LAMBDA r :
                        /\ template_id # None
                        /\ r.recurring_template_id # None
                        /\ r.recurring_template_id = template_id)
        ordered == OrderByDateId(selected)
    IN  [i \in 1..Len(ordered) |-> from_row(ordered[i])]

\* the loop of calculate_balance_up_to_date over the fetched rows
RECURSIVE BalanceLoop(_, _)
BalanceLoop(rows, balance) ==
    IF rows = <<>> THEN balance
    ELSE BalanceLoop(Tail(rows),
                     IF Head(rows).type = "deposit"
                     THEN balance + Head(rows).amount
                     ELSE balance - Head(rows).amount)

calculate_balance_up_to_date_all(rows, target_date) ==
    BalanceLoop(OrderByDateId(SelectSeq(rows, LAMBDA r :
                    IsoLeq(r.date, isoformat(target_date)))), 0)

calculate_balance_up_to_date(rows, target_date) ==
    BalanceLoop(OrderByDateId(SelectSeq(rows, LAMBDA r :
                    IsoLeq(r.date, isoformat(target_date)) /\ r.is_template = 0)), 0)

-----------------------------------------------------------------------------
(* RecurrenceService.generate_instances                                    *)

\* the two checks that open generate_instances: the message of the
\* ValueError raised, "" if none
Precondition_flag_only(template) ==
    IF ~template.is_template
    THEN "Template transaction must have is_template=True"
    ELSE ""

Precondition(template) ==
    IF ~template.is_template
    THEN "Template transaction must have is_template=True"
    ELSE IF template.recurrence_pattern = PatternNone
    THEN "Template must have a recurrence_pattern"
    ELSE ""

\* if instance_date in existing_dates and not regenerate_existing: continue
SkipExisting_always(instance_date, existing_dates, regenerate_existing) ==
    instance_date \in existing_dates

SkipExisting_never(instance_date, existing_dates, regenerate_existing) ==
    FALSE

SkipExisting(instance_date, existing_dates, regenerate_existing) ==
    instance_date \in existing_dates /\ ~regenerate_existing

\* the Transaction built for one instance date
MakeInstance_unlinked(template, instance_date) ==
    Transaction(instance_date, template.amount, template.type,
                template.description, template.category, template.payee,
                None, FALSE, PatternNone, None)

MakeInstance(template, instance_date) ==
    Transaction(instance_date, template.amount, template.type,
                template.description, template.category, template.payee,
                template.id, FALSE, PatternNone, None)

\* the dates of the instances read from the store
ExistingDates_after_anchor(rows, template) ==
    {inst.date : inst \in SeqRange(get_transaction_instances(rows, template.id))}
        \ {template.date}

ExistingDates(rows, template) ==
    {inst.date : inst \in SeqRange(get_transaction_instances(rows, template.id))}

\* generate_instances after the date generation: the filter on the anchor
\* date, the read of the existing instances and the loop that builds the
\* new ones
EmitInstances(rows, template, regenerate_existing, all_dates) ==
    LET instance_dates == SelectSeq(all_dates, LAMBDA d : d >= template.date)
        stored == SelectSeq(rows, LAMBDA r :
                      /\ template.id # None
                      /\ r.recurring_template_id # None
                      /\ r.recurring_template_id = template.id)
        unreadable == {i \in 1..Len(stored) :
                          Transaction_validate(from_row(stored[i])) # ""}
        existing_dates == ExistingDates(rows, template)
        kept == SelectSeq(instance_dates, LAMBDA d :
                    ~SkipExisting(d, existing_dates, regenerate_existing))
        generated == [i \in 1..Len(kept) |-> MakeInstance(template, kept[i])]
        invalid == {i \in 1..Len(generated) : Transaction_validate(generated[i]) # ""}
    IN  IF unreadable # {}
        THEN [status |-> "raised",
              error |-> "ValueError: " \o
                  Transaction_validate(from_row(stored[CHOOSE i \in unreadable :
                                                   \A j \in unreadable : i <= j])),
              steps |-> <<"_generate_dates", "get_transaction_instances">>]
        ELSE IF invalid # {}
        THEN [status |-> "raised",
              error |-> "ValueError: " \o Transaction_validate(generated[1]),
              steps |-> <<"_generate_dates", "get_transaction_instances">>]
        ELSE [status |-> "returned",
              instances |-> generated,
              existing_dates |-> existing_dates,
              steps |-> <<"_generate_dates", "get_transaction_instances">>]

\* steps records which of date generation and store read were reached
generate_instances(rows, template, start_date, end_date, regenerate_existing) ==
    IF Precondition(template) # ""
    THEN [status |-> "raised",
          error |-> "ValueError: " \o Precondition(template),
          steps |-> <<>>]
    ELSE EmitInstances(rows, template, regenerate_existing,
                       _generate_dates(template.date, template.recurrence_pattern,
                                       start_date, end_date))

-----------------------------------------------------------------------------
(* The date generator applied to drawn arguments.                          *)

NoCall == [op |-> "none"]
NoRet == [status |-> "none"]

AnchorDates ==
    {date(2023, 11, 30), date(2023, 12, 31), date(2024, 1, 1), date(2024, 1, 15),
     date(2024, 1, 29), date(2024, 1, 30), date(2024, 1, 31), date(2024, 2, 29),
     date(2024, 4, 30), date(2024, 12, 31)}

LongSpans == {90, 152}

\* range_end before range_start, by these many days
ReversedSpans == {8, 40}

\* the three patterns and a value that is none of them
PatternValues == Patterns \cup {"daily"}

RangeStarts(anchor) == (anchor - 1)..(anchor + MaxLag)

RangeEnds(range_start) ==
    ((range_start - 1)..(range_start + MaxSpan))
        \cup {range_start + k : k \in LongSpans}
        \cup {range_start - k : k \in ReversedSpans}

InitDates ==
    /\ db = <<>>
    /\ sqlite_sequence = 0
    /\ prev = NoCall
    /\ ret = [status |-> "pending"]
    /\ \E start_date \in AnchorDates, pattern \in PatternValues :
         \E range_start \in RangeStarts(start_date) :
           \E range_end \in RangeEnds(range_start) :
             call = [op |-> "_generate_dates", start_date |-> start_date,
                     pattern |-> pattern, range_start |-> range_start,
                     range_end |-> range_end]

GenerateDates ==
    /\ call.op = "_generate_dates"
    /\ ret.status = "pending"
    /\ ret' = [status |-> "returned",
               dates |-> _generate_dates(call.start_date, call.pattern,
                                         call.range_start, call.range_end)]
    /\ UNCHANGED <<db, sqlite_sequence, call, prev>>

NextDates == GenerateDates

SpecDates == InitDates /\ [][NextDates]_vars

DatesReturned == call.op = "_generate_dates" /\ ret.status = "returned"

-----------------------------------------------------------------------------
(* The store, the reconciler and the running balance.                      *)

TemplateWeekly ==
    Transaction(date(2024, 1, 1), 100, "deposit", "Weekly deposit", "Income",
                "Employer", None, TRUE, "weekly", None)

TemplateMonthly ==
    Transaction(date(2024, 1, 31), 200, "withdrawal", "Rent", "Housing",
                "Landlord", None, TRUE, "monthly", None)

OneTime ==
    Transaction(date(2024, 1, 8), 30, "withdrawal", "Groceries", "Food",
                "", None, FALSE, PatternNone, None)

\* an instance of whichever transaction is stored first, with its own amount
\* and text
EditedInstance ==
    Transaction(date(2024, 1, 15), 70, "deposit", "Weekly deposit (edited)",
                "Income", "Employer", 1, FALSE, PatternNone, None)

NewTransactions ==
    {TemplateWeekly, TemplateMonthly, OneTime, EditedInstance}

\* the object the validation test builds around __init__: a template
\* without a pattern, never stored
template_no_pattern ==
    [id |-> None, date |-> date(2024, 1, 1), amount |-> 100, type |-> "deposit",
     description |-> "Template without pattern", category |-> "", payee |-> "",
     recurring_template_id |-> None, is_template |-> TRUE,
     recurrence_pattern |-> PatternNone]

Ranges ==
    {<<date(2024, 1, 1), date(2024, 1, 31)>>,
     <<date(2024, 1, 31), date(2024, 2, 29)>>}

BalanceDates ==
    {date(2023, 12, 31), date(2024, 1, 8), date(2024, 1, 31), date(2024, 12, 31)}

\* the transactions a caller holds: any stored one, as read back
StoredTransactions == {from_row(db[i]) : i \in 1..Len(db)}

Init ==
    /\ db = <<>>
    /\ sqlite_sequence = 0
    /\ call = NoCall
    /\ ret = NoRet
    /\ prev = NoCall

\* TransactionService.create_transaction
CreateTransaction ==
    \E transaction \in NewTransactions :
        /\ Len(db) < MaxRows
        /\ Transaction_validate(transaction) = ""
        /\ LET row == InsertedRow(transaction, sqlite_sequence + 1)
           IN  IF SchemaAccepts(row)
               THEN /\ db' = Append(db, row)
                    /\ sqlite_sequence' = sqlite_sequence + 1
                    /\ ret' = [status |-> "returned", id |-> row.id]
               ELSE /\ UNCHANGED <<db, sqlite_sequence>>
                    /\ ret' = [status |-> "raised", error |-> "IntegrityError"]
        /\ call' = [op |-> "create_transaction"]
        /\ prev' = NoCall

\* RecurrenceService.generate_instances
GenerateInstances_persisting ==
    \E template \in StoredTransactions \cup {template_no_pattern},
       range \in Ranges, regenerate_existing \in BOOLEAN :
        LET generated == generate_instances(db, template, range[1], range[2],
                                            regenerate_existing)
        IN  /\ call' = [op |-> "generate_instances", template |-> template,
                        start_date |-> range[1], end_date |-> range[2],
                        regenerate_existing |-> regenerate_existing]
            /\ ret' = generated
            /\ prev' = IF call.op = "persist_instances" THEN call ELSE NoCall
            /\ IF generated.status = "returned" /\ generated.instances # <<>>
               THEN /\ db' = Append(db, InsertedRow(generated.instances[1],
                                                    sqlite_sequence + 1))
                    /\ sqlite_sequence' = sqlite_sequence + 1
               ELSE UNCHANGED <<db, sqlite_sequence>>

GenerateInstances ==
    \E template \in StoredTransactions \cup {template_no_pattern},
       range \in Ranges, regenerate_existing \in BOOLEAN :
        /\ call' = [op |-> "generate_instances", template |-> template,
                    start_date |-> range[1], end_date |-> range[2],
                    regenerate_existing |-> regenerate_existing]
        /\ ret' = generate_instances(db, template, range[1], range[2],
                                     regenerate_existing)
        /\ prev' = IF call.op = "persist_instances" THEN call ELSE NoCall
        /\ UNCHANGED <<db, sqlite_sequence>>

RECURSIVE InsertAll(_, _, _)
InsertAll(rows, instances, rowid) ==
    IF instances = <<>> THEN rows
    ELSE InsertAll(Append(rows, InsertedRow(Head(instances), rowid + 1)),
                   Tail(instances), rowid + 1)

\* for instance in instances: create_transaction(instance)
PersistInstances ==
    /\ call.op = "generate_instances"
    /\ ret.status = "returned"
    /\ ret.instances # <<>>
    /\ Len(db) + Len(ret.instances) <= MaxRows
    /\ db' = InsertAll(db, ret.instances, sqlite_sequence)
    /\ sqlite_sequence' = sqlite_sequence + Len(ret.instances)
    /\ call' = [op |-> "persist_instances", template |-> call.template,
                start_date |-> call.start_date, end_date |-> call.end_date,
                regenerate_existing |-> call.regenerate_existing,
                dates |-> [i \in 1..Len(ret.instances) |-> ret.instances[i].date],
                existing_dates |-> ret.existing_dates]
    /\ ret' = NoRet
    /\ prev' = NoCall

\* TransactionService.calculate_balance_up_to_date
CalculateBalance ==
    \E target_date \in BalanceDates :
        /\ call' = [op |-> "calculate_balance_up_to_date",
                    target_date |-> target_date]
        /\ ret' = [status |-> "returned",
                   balance |-> calculate_balance_up_to_date(db, target_date)]
        /\ prev' = NoCall
        /\ UNCHANGED <<db, sqlite_sequence>>

Next ==
    \/ CreateTransaction
    \/ GenerateInstances
    \/ PersistInstances
    \/ CalculateBalance

Spec == Init /\ [][Next]_vars

-----------------------------------------------------------------------------
(* Properties of the date generator.                                       *)

IsLastDayOfMonth(d) == DayOf(d) = DaysInMonth(YearOf(d), MonthOf(d))

Min(a, b) == IF a <= b THEN a ELSE b

StrictlyAscending(s) == \A i \in 1..(Len(s) - 1) : s[i] < s[i + 1]

\* C1: a weekly pattern with anchor A over the range [A, E] yields exactly
\* the dates A, A+7, A+14, ... that lie in [A, E], strictly ascending,
\* without gaps and without duplicates.
C1_WeeklyFromAnchor ==
    (DatesReturned /\ call.pattern = "weekly" /\ call.range_start = call.start_date)
    => LET A == call.start_date
           E == call.range_end
           expected == {d \in A..E : (d - A) % 7 = 0}
       IN  /\ SeqRange(ret.dates) = expected
           /\ Len(ret.dates) = Cardinality(expected)
           /\ StrictlyAscending(ret.dates)
           /\ \A i \in 1..Len(ret.dates) : ret.dates[i] = A + 7 * (i - 1)

C1_Witness ==
    /\ DatesReturned
    /\ call.pattern = "weekly"
    /\ call.range_start = call.start_date
    /\ call.range_end = call.start_date + 30
    /\ Len(ret.dates) = 5

\* C2: a monthly pattern whose anchor is the last day of its month emits
\* only dates that are the last day of their own month, for every range,
\* also when range_start is later than the anchor.
C2_LastDayAnchorEmitsLastDays ==
    (DatesReturned /\ call.pattern = "monthly" /\ IsLastDayOfMonth(call.start_date))
    => \A i \in 1..Len(ret.dates) : IsLastDayOfMonth(ret.dates[i])

\* C3: a monthly pattern whose anchor is not the last day of its month emits
\* only dates whose day is min(anchor day, length of the date's month); when
\* the anchor day exists in every month the dates are exactly the days of
\* the range, from the anchor on, that fall on the anchor's day, one per
\* month (six for 2024-01-15 over [2024-01-15, 2024-06-15]).
C3_MonthlyDayClamped ==
    (DatesReturned /\ call.pattern = "monthly" /\ ~IsLastDayOfMonth(call.start_date))
    => LET day == DayOf(call.start_date)
           first == Max(call.start_date, call.range_start)
       IN  /\ \A i \in 1..Len(ret.dates) :
                DayOf(ret.dates[i]) =
                    Min(day, DaysInMonth(YearOf(ret.dates[i]), MonthOf(ret.dates[i])))
           /\ day <= 28 =>
                /\ SeqRange(ret.dates) = {d \in first..call.range_end : DayOf(d) = day}
                /\ StrictlyAscending(ret.dates)
           /\ (/\ call.start_date = date(2024, 1, 15)
               /\ call.range_start = date(2024, 1, 15)
               /\ call.range_end = date(2024, 6, 15))
              => /\ Len(ret.dates) = 6
                 /\ \A i \in 1..6 : ret.dates[i] = date(2024, i, 15)

\* a month shorter than the anchor's day has been passed and the anchor's
\* day is used again afterwards
C3_Witness ==
    /\ DatesReturned
    /\ call.pattern = "monthly"
    /\ call.start_date = date(2024, 1, 30)
    /\ Len(ret.dates) >= 3
    /\ ret.dates[2] = date(2024, 2, 29)
    /\ ret.dates[3] = date(2024, 3, 30)

\* C4: monthly generation from anchor 2024-01-31 over
\* [2024-01-31, 2024-04-30] yields 2024-01-31, 2024-02-29, 2024-03-31,
\* 2024-04-30, in this order.
C4_EndOfMonthExample ==
    (/\ DatesReturned
     /\ call.pattern = "monthly"
     /\ call.start_date = date(2024, 1, 31)
     /\ call.range_start = date(2024, 1, 31)
     /\ call.range_end = date(2024, 4, 30))
    => ret.dates = <<date(2024, 1, 31), date(2024, 2, 29),
                     date(2024, 3, 31), date(2024, 4, 30)>>

C4_Witness ==
    /\ DatesReturned
    /\ call.pattern = "monthly"
    /\ call.start_date = date(2024, 1, 31)
    /\ call.range_start = date(2024, 1, 31)
    /\ call.range_end = date(2024, 4, 30)
    /\ Len(ret.dates) = 4

-----------------------------------------------------------------------------
(* Properties of the reconciler.                                           *)

GenReturned == call.op = "generate_instances" /\ ret.status = "returned"

\* the candidate dates of the current call: the generator's dates from the
\* anchor on
CandidateDates ==
    SelectSeq(_generate_dates(call.template.date, call.template.recurrence_pattern,
                              call.start_date, call.end_date),
              LAMBDA d : d >= call.template.date)

InstanceDates == [i \in 1..Len(ret.instances) |-> ret.instances[i].date]

\* the current call repeats the call whose batch was just persisted
RepeatsPersistedCall ==
    /\ prev.op = "persist_instances"
    /\ prev.template = call.template
    /\ prev.start_date = call.start_date
    /\ prev.end_date = call.end_date

\* the stored dates of the instances of the call's template
StoredInstanceDates ==
    {fromisoformat(db[i].date) : i \in {j \in 1..Len(db) :
        db[j].recurring_template_id = call.template.id}}

\* C5: generate_instances without regeneration, repeated for the same
\* template and range after every instance of the first call was persisted,
\* returns the empty list.
C5_SecondCallEmpty ==
    (/\ GenReturned
     /\ RepeatsPersistedCall
     /\ ~prev.regenerate_existing
     /\ ~call.regenerate_existing)
    => ret.instances = <<>>

C5_Witness ==
    /\ GenReturned
    /\ RepeatsPersistedCall
    /\ ~prev.regenerate_existing
    /\ ~call.regenerate_existing
    /\ Len(prev.dates) >= 2
    /\ Len(CandidateDates) >= 2

\* C6: without regeneration the emitted dates are exactly the candidate
\* dates on which the store holds no instance of this template: a stored
\* instance of the template suppresses its date whatever its amount or
\* description, and rows of other templates or without a template suppress
\* nothing.
C6_SuppressedByOwnInstancesOnly ==
    (GenReturned /\ ~call.regenerate_existing)
    => /\ SeqRange(InstanceDates) = SeqRange(CandidateDates) \ StoredInstanceDates
       /\ \A i \in 1..Len(db) :
            db[i].recurring_template_id = call.template.id
                => fromisoformat(db[i].date) \notin SeqRange(InstanceDates)

C6_Witness ==
    /\ GenReturned
    /\ ~call.regenerate_existing
    /\ \E i \in 1..Len(db) :
         /\ db[i].recurring_template_id = call.template.id
         /\ db[i].amount # call.template.amount
         /\ db[i].description # call.template.description
         /\ fromisoformat(db[i].date) \in SeqRange(CandidateDates)
         /\ fromisoformat(db[i].date) \notin SeqRange(InstanceDates)
    /\ \E i \in 1..Len(db) :
         /\ db[i].is_template = 0
         /\ db[i].recurring_template_id # call.template.id
         /\ fromisoformat(db[i].date) \in SeqRange(InstanceDates)

\* C7: with regeneration one instance is emitted for every candidate date,
\* whatever the store holds; after a first complete batch was persisted the
\* repeated call returns a batch with the dates of the first.
C7_RegenerateEmitsAll ==
    (GenReturned /\ call.regenerate_existing)
    => /\ InstanceDates = CandidateDates
       /\ (RepeatsPersistedCall
           /\ (prev.regenerate_existing \/ prev.existing_dates = {}))
          => InstanceDates = prev.dates

C7_Witness ==
    /\ GenReturned
    /\ call.regenerate_existing
    /\ RepeatsPersistedCall
    /\ prev.existing_dates = {}
    /\ Len(ret.instances) >= 2
    /\ SeqRange(InstanceDates) \subseteq StoredInstanceDates

\* C8: every returned instance carries the template's amount, type,
\* description, category and payee, the template's id as
\* recurring_template_id, is_template false, no pattern and a candidate
\* date; the instances follow the generator's ascending order (the weekly
\* deposit anchored 2024-01-01 over January 2024 yields Jan 1, 8, 15, 22, 29).
C8_InstancesCopyTemplate ==
    GenReturned
    => /\ \A i \in 1..Len(ret.instances) :
            LET inst == ret.instances[i]
            IN  /\ inst.amount = call.template.amount
                /\ inst.type = call.template.type
                /\ inst.description = call.template.description
                /\ inst.category = call.template.category
                /\ inst.payee = call.template.payee
                /\ inst.recurring_template_id = call.template.id
                /\ inst.recurring_template_id # None
                /\ inst.is_template = FALSE
                /\ inst.recurrence_pattern = PatternNone
                /\ inst.date \in SeqRange(CandidateDates)
       /\ StrictlyAscending(InstanceDates)
       /\ InstanceDates =
            SelectSeq(CandidateDates, LAMBDA d : d \in SeqRange(InstanceDates))
       /\ (/\ call.template.recurrence_pattern = "weekly"
           /\ call.template.date = date(2024, 1, 1)
           /\ call.start_date = date(2024, 1, 1)
           /\ call.end_date = date(2024, 1, 31)
           /\ StoredInstanceDates = {})
          => InstanceDates = <<date(2024, 1, 1), date(2024, 1, 8), date(2024, 1, 15),
                               date(2024, 1, 22), date(2024, 1, 29)>>

C8_Witness ==
    /\ GenReturned
    /\ call.template.recurrence_pattern = "weekly"
    /\ call.template.type = "deposit"
    /\ call.template.amount = 100
    /\ call.template.payee = "Employer"
    /\ call.start_date = date(2024, 1, 1)
    /\ call.end_date = date(2024, 1, 31)
    /\ Len(ret.instances) = 5

\* C9: generate_instances given a transaction that is no template, or a
\* template without a pattern, raises an error that names the failed
\* precondition, before any date is generated or the store is read, and
\* returns nothing.
C9_PreconditionError ==
    (/\ call.op = "generate_instances"
     /\ (~call.template.is_template \/ call.template.recurrence_pattern = PatternNone))
    => /\ ret.status = "raised"
       /\ ret.steps = <<>>
       /\ ~call.template.is_template
            => ret.error = "ValueError: Template transaction must have is_template=True"
       /\ (call.template.is_template /\ call.template.recurrence_pattern = PatternNone)
            => ret.error = "ValueError: Template must have a recurrence_pattern"

C9_Witness ==
    /\ call.op = "generate_instances"
    /\ call.template.is_template
    /\ call.template.recurrence_pattern = PatternNone
    /\ ret.status = "raised"
    /\ \E i \in 1..Len(db) : db[i].is_template = 0

-----------------------------------------------------------------------------
(* Properties of the running balance.                                      *)

RECURSIVE SignedSum(_)
SignedSum(ids) ==
    IF ids = {} THEN 0
    ELSE LET i == CHOOSE j \in ids : TRUE
         IN  (IF db[i].type = "deposit" THEN db[i].amount ELSE 0 - db[i].amount)
                 + SignedSum(ids \ {i})

\* C10: the balance up to a target date is the sum, over the stored
\* non-template transactions dated on or before the target, of +amount for
\* a deposit and -amount for a withdrawal; templates never contribute.
C10_BalanceIsSignedSum ==
    call.op = "calculate_balance_up_to_date"
    => ret.balance =
         SignedSum({i \in 1..Len(db) :
                       /\ db[i].is_template = 0
                       /\ fromisoformat(db[i].date) <= call.target_date})

C10_Witness ==
    /\ call.op = "calculate_balance_up_to_date"
    /\ \E i \in 1..Len(db) :
         db[i].is_template = 1 /\ fromisoformat(db[i].date) <= call.target_date
    /\ \E i \in 1..Len(db) :
         /\ db[i].is_template = 0 /\ db[i].type = "withdrawal"
         /\ fromisoformat(db[i].date) <= call.target_date
    /\ \E i \in 1..Len(db) :
         /\ db[i].is_template = 0 /\ db[i].type = "deposit"
         /\ fromisoformat(db[i].date) > call.target_date
    /\ ret.balance < 0

-----------------------------------------------------------------------------
(* TransactionService.calculate_weekly_balances                            *)

\* date.weekday(): 0 is Monday, 6 is Sunday
weekday(n) == (n + 6) % 7

\* get_transactions_by_date_range, called without a transaction_type:
\* date >= start AND date <= end [AND is_template = 0] ORDER BY date, id
get_transactions_by_date_range_exclusive(rows, start_date, end_date, include_templates) ==
    LET start_iso == isoformat(start_date)
        end_iso == isoformat(end_date)
        selected == SelectSeq(rows, LAMBDA r :
                        /\ IsoLeq(start_iso, r.date)
                        /\ IsoLeq(r.date, end_iso)
                        /\ r.date # end_iso
                        /\ (include_templates \/ r.is_template = 0))
        ordered == OrderByDateId(selected)
    IN  [i \in 1..Len(ordered) |-> from_row(ordered[i])]

get_transactions_by_date_range(rows, start_date, end_date, include_templates) ==
    LET start_iso == isoformat(start_date)
        end_iso == isoformat(end_date)
        selected == SelectSeq(rows, LAMBDA r :
                        /\ IsoLeq(start_iso, r.date)
                        /\ IsoLeq(r.date, end_iso)
                        /\ (include_templates \/ r.is_template = 0))
        ordered == OrderByDateId(selected)
    IN  [i \in 1..Len(ordered) |-> from_row(ordered[i])]

\* sum(t.get_signed_amount() for t in week_transactions)
RECURSIVE SumSigned(_)
SumSigned(transactions) ==
    IF transactions = <<>> THEN 0
    ELSE get_signed_amount(Head(transactions)) + SumSigned(Tail(transactions))

\* month_end = date(year, month, (next_month_start - month_start).days)
MonthEnd(year, month) ==
    LET next_month_start == IF month = 12 THEN date(year + 1, 1, 1)
                            ELSE date(year, month + 1, 1)
        month_start == date(year, month, 1)
    IN  date(year, month, next_month_start - month_start)

\* the balance at the end of the previous month
StartingBalance_zero(rows, month_start) == 0

StartingBalance(rows, month_start) ==
    calculate_balance_up_to_date(rows, month_start - 1)

\* the Sunday that closes the week of week_start, or the end of the month
WeekEnd_untruncated(week_start, month_end) ==
    week_start + ((6 - weekday(week_start)) % 7)

WeekEnd(week_start, month_end) ==
    LET days_until_sunday == (6 - weekday(week_start)) % 7
        week_end == IF days_until_sunday = 0 THEN week_start
                    ELSE week_start + days_until_sunday
    IN  IF week_end <= month_end THEN week_end ELSE month_end

\* the WeeklyBalance appended for one week
MakeWeek_start_after(week_start, week_end, current_balance, net_change) ==
    [week_start |-> week_start,
     week_end |-> week_end,
     starting_balance |-> current_balance + net_change,
     ending_balance |-> current_balance + net_change,
     net_change |-> net_change]

MakeWeek(week_start, week_end, current_balance, net_change) ==
    [week_start |-> week_start,
     week_end |-> week_end,
     starting_balance |-> current_balance,
     ending_balance |-> current_balance + net_change,
     net_change |-> net_change]

\* the weeks of the month, templates counted with the transactions
RECURSIVE WeeklyLoop_with_templates(_, _, _, _)
WeeklyLoop_with_templates(rows, current_date, month_end, current_balance) ==
    IF current_date <= month_end
    THEN LET week_end == WeekEnd(current_date, month_end)
             net_change == SumSigned(get_transactions_by_date_range(
                                         rows, current_date, week_end, TRUE))
             week == MakeWeek(current_date, week_end, current_balance, net_change)
         IN  IF week_end < month_end
             THEN <<week>> \o WeeklyLoop_with_templates(rows, week_end + 1, month_end,
                                                        current_balance + net_change)
             ELSE <<week>>
    ELSE <<>>

\* while current_date <= month_end: one week per iteration
RECURSIVE WeeklyLoop(_, _, _, _)
WeeklyLoop(rows, current_date, month_end, current_balance) ==
    IF current_date <= month_end
    THEN LET week_start == current_date
             week_end == WeekEnd(week_start, month_end)
             week_transactions ==
                 get_transactions_by_date_range(rows, week_start, week_end, FALSE)
             net_change == SumSigned(week_transactions)
             week == MakeWeek(week_start, week_end, current_balance, net_change)
         IN  IF week_end < month_end
             THEN <<week>> \o WeeklyLoop(rows, week_end + 1, month_end,
                                         current_balance + net_change)
             ELSE <<week>>
    ELSE <<>>

calculate_weekly_balances(rows, year, month) ==
    LET month_start == date(year, month, 1)
        month_end == MonthEnd(year, month)
    IN  WeeklyLoop(rows, month_start, month_end, StartingBalance(rows, month_start))

-----------------------------------------------------------------------------
(* The ledger: a store of dated transactions and its weekly balances.      *)

DepositDecember ==
    Transaction(date(2023, 12, 31), 500, "deposit", "Salary", "Income",
                "Employer", None, FALSE, PatternNone, None)

WithdrawalSunday ==
    Transaction(date(2024, 1, 7), 30, "withdrawal", "Groceries", "Food",
                "", None, FALSE, PatternNone, None)

DepositMonthEnd ==
    Transaction(date(2024, 1, 31), 70, "deposit", "Refund", "",
                "", None, FALSE, PatternNone, None)

LedgerTransactions ==
    {DepositDecember, WithdrawalSunday, DepositMonthEnd, TemplateWeekly}

\* December into January, a leap February, and a month that starts on a
\* Sunday (September 2024)
Months == {<<2023, 12>>, <<2024, 1>>, <<2024, 2>>, <<2024, 3>>, <<2024, 9>>}

\* the month after <<year, month>>
FollowingMonth(ym) == IF ym[2] = 12 THEN <<ym[1] + 1, 1>> ELSE <<ym[1], ym[2] + 1>>

\* TransactionService.create_transaction
CreateLedgerTransaction ==
    \E transaction \in LedgerTransactions :
        /\ Len(db) < MaxRows
        /\ Transaction_validate(transaction) = ""
        /\ SchemaAccepts(InsertedRow(transaction, sqlite_sequence + 1))
        /\ db' = Append(db, InsertedRow(transaction, sqlite_sequence + 1))
        /\ sqlite_sequence' = sqlite_sequence + 1
        /\ call' = [op |-> "create_transaction"]
        /\ ret' = [status |-> "returned", id |-> sqlite_sequence + 1]
        /\ prev' = NoCall

\* TransactionService.calculate_weekly_balances; prev keeps the result for
\* the month before when that was the call just made
CalculateWeeklyBalances ==
    \E ym \in Months :
        /\ call' = [op |-> "calculate_weekly_balances",
                    year |-> ym[1], month |-> ym[2]]
        /\ ret' = [status |-> "returned",
                   weeks |-> calculate_weekly_balances(db, ym[1], ym[2])]
        /\ prev' = IF /\ call.op = "calculate_weekly_balances"
                      /\ FollowingMonth(<<call.year, call.month>>) = ym
                   THEN [op |-> "calculate_weekly_balances",
                         year |-> call.year, month |-> call.month,
                         weeks |-> ret.weeks]
                   ELSE NoCall
        /\ UNCHANGED <<db, sqlite_sequence>>

NextLedger ==
    \/ CreateLedgerTransaction
    \/ CalculateWeeklyBalances

SpecLedger == Init /\ [][NextLedger]_vars

-----------------------------------------------------------------------------
(* Properties of the weekly balances.                                      *)

WeeklyReturned == call.op = "calculate_weekly_balances" /\ ret.status = "returned"

RECURSIVE SumNetChange(_)
SumNetChange(weeks) ==
    IF weeks = <<>> THEN 0
    ELSE Head(weeks).net_change + SumNetChange(Tail(weeks))

\* C11: in the weekly balances of a month every week's ending balance is
\* its starting balance plus its net change, every week after the first
\* starts at the ending balance of the week before, and the last week's
\* ending balance is the first week's starting balance plus the sum of all
\* the weeks' net changes.
C11_WeeklyConservation ==
    WeeklyReturned
    => LET w == ret.weeks
       IN  /\ \A i \in 1..Len(w) :
                w[i].ending_balance = w[i].starting_balance + w[i].net_change
           /\ \A i \in 2..Len(w) :
                w[i].starting_balance = w[i - 1].ending_balance
           /\ Len(w) > 0
           /\ w[Len(w)].ending_balance = w[1].starting_balance + SumNetChange(w)

C11_Witness ==
    /\ WeeklyReturned
    /\ \E i, j \in 1..Len(ret.weeks) :
         /\ i < j
         /\ ret.weeks[i].net_change < 0
         /\ ret.weeks[j].net_change > 0
         /\ ret.weeks[1].starting_balance # 0

\* C12: when the weekly balances of a month and then of the following month
\* are computed on an unchanged store, the first week of the following
\* month starts at the ending balance of the last week of the preceding
\* month, December into January of the next year included.
C12_CarryOver ==
    (WeeklyReturned /\ prev.op = "calculate_weekly_balances")
    => /\ FollowingMonth(<<prev.year, prev.month>>) = <<call.year, call.month>>
       /\ ret.weeks[1].starting_balance
              = prev.weeks[Len(prev.weeks)].ending_balance

C12_Witness ==
    /\ WeeklyReturned
    /\ prev.op = "calculate_weekly_balances"
    /\ prev.year = 2023 /\ prev.month = 12
    /\ call.year = 2024 /\ call.month = 1
    /\ prev.weeks[Len(prev.weeks)].net_change # 0
    /\ ret.weeks[1].starting_balance # 0

\* C13: the starting balance of the first week of a month is the balance up
\* to the day before the first day of the month, that is the signed sum of
\* every stored non-template transaction dated before the month; it is not
\* reset to zero at the start of the month.
C13_FirstWeekStartsAtPriorBalance ==
    WeeklyReturned
    => LET month_start == date(call.year, call.month, 1)
       IN  /\ ret.weeks[1].starting_balance
                  = calculate_balance_up_to_date(db, month_start - 1)
           /\ ret.weeks[1].starting_balance
                  = SignedSum({i \in 1..Len(db) :
                                  /\ db[i].is_template = 0
                                  /\ fromisoformat(db[i].date) < month_start})

C13_Witness ==
    /\ WeeklyReturned
    /\ call.year = 2024 /\ call.month = 2
    /\ ret.weeks[1].starting_balance = 470
    /\ \E i \in 1..Len(db) : db[i].is_template = 1

\* C14: the weeks of a month partition [first day, last day]: the first
\* week starts on day 1 and ends on the first Sunday on or after day 1 or at
\* the end of the month if that is earlier; every later week starts on a
\* Monday, the day after the week before, and ends on the following Sunday
\* or at the end of the month; the last week ends on the last day.
C14_WeeksPartitionMonth ==
    WeeklyReturned
    => LET w == ret.weeks
           first_day == date(call.year, call.month, 1)
           last_day == date(call.year, call.month,
                            DaysInMonth(call.year, call.month))
           first_sunday == CHOOSE d \in first_day..(first_day + 6) : weekday(d) = 6
       IN  /\ Len(w) >= 1
           /\ w[1].week_start = first_day
           /\ w[1].week_end = Min(first_sunday, last_day)
           /\ \A i \in 2..Len(w) :
                /\ w[i].week_start = w[i - 1].week_end + 1
                /\ weekday(w[i].week_start) = 0
                /\ w[i].week_end = Min(w[i].week_start + 6, last_day)
           /\ \A i \in 1..Len(w) : w[i].week_start <= w[i].week_end
           /\ w[Len(w)].week_end = last_day

C14_Witness ==
    /\ WeeklyReturned
    /\ call.year = 2024 /\ call.month = 9
    /\ Len(ret.weeks) = 6
    /\ ret.weeks[1].week_end = ret.weeks[1].week_start
    /\ ret.weeks[6].week_end = ret.weeks[6].week_start
    /\ weekday(ret.weeks[6].week_end) = 0

-----------------------------------------------------------------------------
(* Construction of a Transaction.                                          *)

Amounts == (0 - MaxAmount)..MaxAmount

InitCtor ==
    /\ db = <<>>
    /\ sqlite_sequence = 0
    /\ prev = NoCall
    /\ ret = [status |-> "pending"]
    /\ \E amount \in Amounts, type \in {"deposit", "withdrawal"},
          recurring_template_id \in {None, 1}, is_template \in BOOLEAN,
          recurrence_pattern \in {PatternNone} \cup Patterns :
         call = [op |-> "Transaction", date |-> date(2024, 1, 15),
                 amount |-> amount, type |-> type,
                 recurring_template_id |-> recurring_template_id,
                 is_template |-> is_template,
                 recurrence_pattern |-> recurrence_pattern]

\* Transaction.__init__: the object, or the ValueError of _validate
Construct ==
    /\ call.op = "Transaction"
    /\ ret.status = "pending"
    /\ LET t == Transaction(call.date, call.amount, call.type, "", "", "",
                            call.recurring_template_id, call.is_template,
                            call.recurrence_pattern, None)
           error == Transaction_validate(t)
       IN  ret' = IF error = ""
                  THEN [status |-> "returned", transaction |-> t]
                  ELSE [status |-> "raised", error |-> error]
    /\ UNCHANGED <<db, sqlite_sequence, call, prev>>

NextCtor == Construct

SpecCtor == InitCtor /\ [][NextCtor]_vars

Constructed == call.op = "Transaction" /\ ret.status # "pending"

\* C15: constructing a Transaction with an amount that is zero or negative
\* raises a validation error, and a constructed Transaction holds the
\* amount it was given: a negative amount is not replaced by its absolute
\* value.
C15_NonPositiveAmountRejected ==
    Constructed
    => /\ call.amount <= 0 => ret.status = "raised"
       /\ ret.status = "returned" => ret.transaction.amount = call.amount

\* C16: constructing a Transaction with is_template false and a recurrence
\* pattern raises a validation error whether or not recurring_template_id
\* is set, so no constructed non-template carries a pattern.
C16_NonTemplateWithPatternRejected ==
    Constructed
    => /\ (~call.is_template /\ call.recurrence_pattern # PatternNone)
              => ret.status = "raised"
       /\ (ret.status = "returned" /\ ~ret.transaction.is_template)
              => ret.transaction.recurrence_pattern = PatternNone

\* C17: constructing a Transaction with is_template true raises a
\* validation error when recurring_template_id is set or the recurrence
\* pattern is missing; every constructed template has no
\* recurring_template_id and has a pattern.
C17_TemplateFieldsChecked ==
    Constructed
    => /\ (/\ call.is_template
           /\ \/ call.recurring_template_id # None
              \/ call.recurrence_pattern = PatternNone)
              => ret.status = "raised"
       /\ (ret.status = "returned" /\ ret.transaction.is_template)
              => /\ ret.transaction.recurring_template_id = None
                 /\ ret.transaction.recurrence_pattern # PatternNone

C17_Witness ==
    /\ Constructed
    /\ call.is_template
    /\ call.amount > 0
    /\ call.recurring_template_id # None
    /\ call.recurrence_pattern # PatternNone
    /\ ret.status = "raised"
    /\ ret.error = "Template transactions cannot have a recurring_template_id"

-----------------------------------------------------------------------------
(* RecurrenceService.generate_all_instances_up_to                          *)

\* get_template_transactions: WHERE is_template = 1 ORDER BY date ASC.  The
\* query does not order rows of equal date, so every order of the template
\* rows that ascends by date is a possible result.
get_template_transactions(rows) ==
    LET selected == SelectSeq(rows, LAMBDA r : r.is_template = 1)
        n == Len(selected)
        orders == {p \in [1..n -> 1..n] :
                      /\ \A i, j \in 1..n : i # j => p[i] # p[j]
                      /\ \A i, j \in 1..n :
                           i < j => IsoLeq(selected[p[i]].date, selected[p[j]].date)}
    IN  {[i \in 1..n |-> from_row(selected[p[i]])] : p \in orders}

\* for template in templates: generate_instances, then create_transaction
\* for each instance, each insert committed on its own.  budget is the
\* number of inserts the store accepts before it raises.
RECURSIVE BulkLoop(_, _, _, _, _, _)
RECURSIVE PersistGenerated(_, _, _, _, _, _, _)
PersistGenerated(rows, rowid, templates, end_date, regenerate_existing, budget, generated) ==
    IF generated.status = "raised"
    THEN [status |-> "raised", error |-> generated.error, rows |-> rows]
    ELSE IF Len(generated.instances) > budget
    THEN [status |-> "raised", error |-> "sqlite3.Error",
          rows |-> InsertAll(rows, SubSeq(generated.instances, 1, budget), rowid)]
    ELSE BulkLoop(InsertAll(rows, generated.instances, rowid),
                  rowid + Len(generated.instances), Tail(templates),
                  end_date, regenerate_existing,
                  budget - Len(generated.instances))

BulkLoop(rows, rowid, templates, end_date, regenerate_existing, budget) ==
    IF templates = <<>> THEN [status |-> "returned", rows |-> rows]
    ELSE PersistGenerated(rows, rowid, templates, end_date, regenerate_existing,
                          budget,
                          generate_instances(rows, Head(templates),
                                             Head(templates).date, end_date,
                                             regenerate_existing))

BulkEnds == {date(2024, 1, 15), date(2024, 1, 31)}

\* RecurrenceService.generate_all_instances_up_to, with a store that may
\* raise on any insert; taken when the complete run fits in MaxInserts
GenerateAllInstancesUpTo ==
    \E end_date \in BulkEnds, regenerate_existing \in BOOLEAN,
       budget \in 0..MaxInserts :
      \E templates \in get_template_transactions(db) :
        \E complete \in {BulkLoop(db, sqlite_sequence, templates, end_date,
                                  regenerate_existing, MaxInserts + 1)},
           result \in {BulkLoop(db, sqlite_sequence, templates, end_date,
                                regenerate_existing, budget)} :
            /\ Len(db) <= MaxRows
            /\ Len(complete.rows) - Len(db) <= MaxInserts
            /\ db' = result.rows
            /\ sqlite_sequence' = sqlite_sequence + (Len(result.rows) - Len(db))
            /\ call' = [op |-> "generate_all_instances_up_to",
                        end_date |-> end_date,
                        regenerate_existing |-> regenerate_existing,
                        rows_before |-> db]
            /\ ret' = IF result.status = "returned"
                      THEN [status |-> "returned",
                            instances |-> SubSeq(result.rows, Len(db) + 1,
                                                 Len(result.rows))]
                      ELSE [status |-> "raised", error |-> result.error]
            /\ prev' = NoCall

NextBulk ==
    \/ CreateTransaction
    \/ GenerateAllInstancesUpTo

SpecBulk == Init /\ [][NextBulk]_vars

BulkCalled == call.op = "generate_all_instances_up_to"

\* the rows persisted by the bulk call, in the order of their insertion
NewRows == SubSeq(db, Len(call.rows_before) + 1, Len(db))

\* the anchor date of the template with the given id
AnchorOf(template_id) ==
    LET i == CHOOSE j \in 1..Len(call.rows_before) :
                 call.rows_before[j].id = template_id
    IN  call.rows_before[i].date

\* the instances generate_instances yields for a template on the store as
\* it was before the bulk call
ExpectedInstances(template) ==
    generate_instances(call.rows_before, template, template.date,
                       call.end_date, call.regenerate_existing).instances

NewDatesOf(template) ==
    LET mine == SelectSeq(NewRows, LAMBDA r : r.recurring_template_id = template.id)
    IN  [i \in 1..Len(mine) |-> fromisoformat(mine[i].date)]

FullyMaterialized(template) ==
    NewDatesOf(template)
        = [i \in 1..Len(ExpectedInstances(template)) |->
               ExpectedInstances(template)[i].date]

BulkTemplates == {from_row(call.rows_before[i]) :
                     i \in {j \in 1..Len(call.rows_before) :
                               call.rows_before[j].is_template = 1}}

\* the newly persisted rows follow the templates' ascending anchor dates,
\* the rows of one template together
BulkOrdered ==
    /\ \A i, j \in 1..Len(NewRows) :
         i < j => IsoLeq(AnchorOf(NewRows[i].recurring_template_id),
                         AnchorOf(NewRows[j].recurring_template_id))
    /\ \A i, j, k \in 1..Len(NewRows) :
         (i < k /\ k < j /\ NewRows[i].recurring_template_id
                              = NewRows[j].recurring_template_id)
         => NewRows[k].recurring_template_id = NewRows[i].recurring_template_id

\* C18: generate_all_instances_up_to takes the stored templates in
\* ascending anchor-date order and persists the instances of one template
\* over [template.date, end_date] before it turns to the next; when it
\* fails part-way on a store error, every template is either fully
\* materialized up to end_date or has no newly persisted instance.
C18_BulkAllOrNothingPerTemplate ==
    BulkCalled
    => /\ BulkOrdered
       /\ ret.status = "returned"
              => \A template \in BulkTemplates : FullyMaterialized(template)
       /\ ret.status = "raised"
              => \A template \in BulkTemplates :
                     FullyMaterialized(template) \/ NewDatesOf(template) = <<>>

-----------------------------------------------------------------------------
(* Two callers that generate and persist for the same template.            *)

Callers == {1, 2}

\* overlapping ranges: both hold 2024-01-08 and 2024-01-15
RaceRanges == {<<date(2024, 1, 1), date(2024, 1, 15)>>,
               <<date(2024, 1, 8), date(2024, 1, 22)>>}

RaceTemplate == from_row(InsertedRow(TemplateWeekly, 1))

\* the store holds the template; each caller is about to call
\* generate_instances(template, start_date, end_date) and persist the result
InitRace ==
    /\ db = <<InsertedRow(TemplateWeekly, 1)>>
    /\ sqlite_sequence = 1
    /\ ret = NoRet
    /\ prev = NoCall
    /\ \E serialized \in BOOLEAN, ranges \in [Callers -> RaceRanges] :
         call = [op |-> "generate_and_persist",
                 serialized |-> serialized,
                 callers |-> [c \in Callers |->
                                 [pc |-> "idle",
                                  start_date |-> ranges[c][1],
                                  end_date |-> ranges[c][2],
                                  instances |-> <<>>]]]

\* generate_instances(template, start_date, end_date, False): reads the
\* existing instances and builds the new ones.  Serialized callers start
\* only while no other caller is between its read and its last write.
RaceGenerate ==
    \E c \in Callers :
        /\ call.op = "generate_and_persist"
        /\ call.callers[c].pc = "idle"
        /\ call.serialized => \A o \in Callers \ {c} : call.callers[o].pc # "persist"
        /\ LET generated == generate_instances(db, RaceTemplate,
                                               call.callers[c].start_date,
                                               call.callers[c].end_date, FALSE)
           IN  call' = [call EXCEPT
                          !.callers[c].instances = generated.instances,
                          !.callers[c].pc = IF generated.instances = <<>>
                                            THEN "done" ELSE "persist"]
        /\ UNCHANGED <<db, sqlite_sequence, ret, prev>>

\* one create_transaction(instance) of the caller's persisting loop
RacePersist ==
    \E c \in Callers :
        /\ call.op = "generate_and_persist"
        /\ call.callers[c].pc = "persist"
        /\ db' = Append(db, InsertedRow(Head(call.callers[c].instances),
                                        sqlite_sequence + 1))
        /\ sqlite_sequence' = sqlite_sequence + 1
        /\ call' = [call EXCEPT
                      !.callers[c].instances = Tail(@),
                      !.callers[c].pc = IF Len(call.callers[c].instances) = 1
                                        THEN "done" ELSE "persist"]
        /\ UNCHANGED <<ret, prev>>

NextRace ==
    \/ RaceGenerate
    \/ RacePersist

SpecRace == InitRace /\ [][NextRace]_vars

\* two stored instances of the template on one date
DuplicateInstance ==
    \E i, j \in 1..Len(db) :
        /\ i # j
        /\ db[i].is_template = 0 /\ db[j].is_template = 0
        /\ db[i].recurring_template_id = RaceTemplate.id
        /\ db[j].recurring_template_id = RaceTemplate.id
        /\ db[i].date = db[j].date

\* C19: when the two read-generate-persist sequences for the same template
\* are serialized, the store never holds two instances of the template on
\* the same date; without serialization there is an interleaving, both
\* callers reading before either writes, that ends with such a duplicate.
C19_SerializedNoDuplicate ==
    (call.op = "generate_and_persist" /\ call.serialized) => ~DuplicateInstance

C19_Witness ==
    /\ call.op = "generate_and_persist"
    /\ ~call.serialized
    /\ \A c \in Callers : call.callers[c].pc = "done"
    /\ DuplicateInstance

SerializedBothDone ==
    /\ call.op = "generate_and_persist"
    /\ call.serialized
    /\ \A c \in Callers : call.callers[c].pc = "done"
    /\ call.callers[1].start_date # call.callers[2].start_date
    /\ Len(db) = 5

-----------------------------------------------------------------------------
(* generate_instances leaves the store alone.                              *)

\* C20: generate_instances performs no persistence: a call, with either
\* value of regenerate_existing, leaves the stored transactions and the id
\* counter as they were, and the instances it returns have no id.
C20_GenerateDoesNotPersist ==
    [][call'.op = "generate_instances"
         => /\ db' = db
            /\ sqlite_sequence' = sqlite_sequence
            /\ ret'.status = "returned"
                   => \A i \in 1..Len(ret'.instances) : ret'.instances[i].id = None]_vars

C20_Witness ==
    /\ call.op = "generate_instances"
    /\ ret.status = "returned"
    /\ call.regenerate_existing
    /\ Len(ret.instances) >= 2
    /\ \E i \in 1..Len(db) : db[i].recurring_template_id = call.template.id
    /\ \A i \in 1..Len(ret.instances) : ret.instances[i].id = None

-----------------------------------------------------------------------------
(* Further properties of the date generator.                               *)

\* C21: the date generator given a pattern that is not weekly, biweekly or
\* monthly fails with an error; it does not return a list of dates.
C21_InvalidPatternFails ==
    (call.op = "_generate_dates" /\ ret.status # "pending"
        /\ call.pattern \notin Patterns)
    => ret.status = "raised"

\* C22: for every pattern and every anchor the date generator called with
\* range_end < range_start returns the empty sequence and raises no error.
C22_ReversedRangeEmpty ==
    (call.op = "_generate_dates" /\ ret.status # "pending"
        /\ call.range_end < call.range_start)
    => ret.status = "returned" /\ ret.dates = <<>>

C22_Witness ==
    /\ DatesReturned
    /\ call.pattern = "weekly"
    /\ call.start_date < call.range_end
    /\ call.range_end = call.range_start - 8
    /\ ret.dates = <<>>

\* C24: for the weekly (step 7) and biweekly (step 14) patterns and a
\* range_start later than the anchor, the result is that of naive iteration
\* from the anchor: the first date is the smallest anchor + step * k, k >= 0,
\* that is >= range_start, every later date is one step after the one
\* before, and the dates run up to range_end.
C24_FastForwardIsNaive ==
    (DatesReturned /\ call.pattern \in {"weekly", "biweekly"}
        /\ call.range_start > call.start_date)
    => LET A == call.start_date
           step == IF call.pattern = "weekly" THEN 7 ELSE 14
           naive == {d \in call.range_start..call.range_end : (d - A) % step = 0}
       IN  /\ SeqRange(ret.dates) = naive
           /\ Len(ret.dates) = Cardinality(naive)
           /\ \A i \in 1..(Len(ret.dates) - 1) : ret.dates[i + 1] = ret.dates[i] + step
           /\ ret.dates # <<>> =>
                /\ ret.dates[1] >= call.range_start
                /\ ret.dates[1] - step < call.range_start
                /\ ret.dates[Len(ret.dates)] + step > call.range_end

C24_Witness ==
    /\ DatesReturned
    /\ call.pattern = "biweekly"
    /\ call.range_start = call.start_date + 17
    /\ Len(ret.dates) >= 3
    /\ ret.dates[1] = call.start_date + 28

\* d is an occurrence of the monthly pattern anchored at anchor
IsMonthlyOccurrence(anchor, d) ==
    IF IsLastDayOfMonth(anchor) THEN IsLastDayOfMonth(d)
    ELSE DayOf(d) = Min(DayOf(anchor), DaysInMonth(YearOf(d), MonthOf(d)))

\* C25: for a monthly pattern the emitted dates are exactly the occurrences
\* of the pattern (the anchor's day clamped to the month's length, or the
\* last day of the month for a last-day anchor) in
\* [max(anchor, range_start), range_end], starting with the smallest one:
\* none is skipped and no other date is emitted.
C25_MonthlyFirstOccurrence ==
    (DatesReturned /\ call.pattern = "monthly")
    => LET first == Max(call.start_date, call.range_start)
       IN  /\ SeqRange(ret.dates)
                  = {d \in first..call.range_end :
                        IsMonthlyOccurrence(call.start_date, d)}
           /\ StrictlyAscending(ret.dates)

\* C26: for every pattern, anchor and range the date generator returns a
\* finite, strictly ascending sequence without duplicates in which every
\* date lies in [range_start, range_end] and is not before the anchor.
C26_AscendingWithinRange ==
    (call.op = "_generate_dates" /\ ret.status # "pending")
    => /\ ret.status = "returned"
       /\ StrictlyAscending(ret.dates)
       /\ \A i \in 1..Len(ret.dates) :
            /\ call.range_start <= ret.dates[i]
            /\ ret.dates[i] <= call.range_end
            /\ call.start_date <= ret.dates[i]

C26_Witness ==
    /\ DatesReturned
    /\ call.pattern = "monthly"
    /\ call.start_date = date(2024, 1, 30)
    /\ call.range_start = date(2024, 2, 20)
    /\ ret.dates = <<date(2024, 2, 29), date(2024, 3, 30), date(2024, 4, 30)>>

-----------------------------------------------------------------------------
(* TransactionService.filter_transactions                                  *)

\* In this section a str is the sequence of its characters, "" is <<>>, and
\* an optional argument is <<>> when omitted and <<v>> when given.

\* str.lower() on the letters used here
lower(text) ==
    [i \in 1..Len(text) |->
        IF text[i] = "A" THEN "a" ELSE IF text[i] = "B" THEN "b" ELSE text[i]]

\* needle in haystack, for two str
RECURSIVE str_in(_, _)
str_in(needle, haystack) ==
    IF Len(needle) > Len(haystack) THEN FALSE
    ELSE IF SubSeq(haystack, 1, Len(needle)) = needle THEN TRUE
    ELSE str_in(needle, Tail(haystack))

\* the condition of the text search comprehension
TextMatches_description_only(t, text_lower) ==
    str_in(text_lower, lower(t.description))

TextMatches(t, text_lower) ==
    \/ str_in(text_lower, lower(t.description))
    \/ str_in(text_lower, lower(t.category))
    \/ str_in(text_lower, lower(t.payee))

filter_transactions(transactions, text_search, transaction_type, min_amount, max_amount, start_date, end_date) ==
    LET f1 == IF text_search # <<>>
              THEN SelectSeq(transactions,
                             LAMBDA t : TextMatches(t, lower(text_search)))
              ELSE transactions
        f2 == IF transaction_type # PatternNone
              THEN SelectSeq(f1, LAMBDA t : t.type = transaction_type)
              ELSE f1
        f3 == IF min_amount # <<>>
              THEN SelectSeq(f2, LAMBDA t : t.amount >= min_amount[1])
              ELSE f2
        f4 == IF max_amount # <<>>
              THEN SelectSeq(f3, LAMBDA t : t.amount <= max_amount[1])
              ELSE f3
        f5 == IF start_date # <<>>
              THEN SelectSeq(f4, LAMBDA t : t.date >= start_date[1])
              ELSE f4
    IN  IF end_date # <<>>
        THEN SelectSeq(f5, LAMBDA t : t.date <= end_date[1])
        ELSE f5

FilterPool ==
    {Transaction(date(2024, 1, 15), 1, "deposit", <<"A", "b">>, <<"b", "a">>,
                 <<>>, None, FALSE, PatternNone, 1),
     Transaction(date(2024, 1, 20), 2, "withdrawal", <<>>, <<"B">>,
                 <<"a", "B">>, None, FALSE, PatternNone, 2),
     Transaction(date(2024, 1, 20), 2, "deposit", <<"b", "b">>, <<>>,
                 <<"A">>, None, FALSE, PatternNone, 3)}

\* the lists of distinct transactions of the pool, in every order
FilterInputs ==
    UNION {{list \in [1..n -> FilterPool] :
               \A i, j \in 1..n : i # j => list[i] # list[j]} :
           n \in 0..Cardinality(FilterPool)}

FilterTexts == {<<>>, <<"a">>, <<"A", "B">>, <<"b">>, <<"c">>}

Optional(values) == {<<>>} \cup {<<v>> : v \in values}

InitFilter ==
    /\ db = <<>>
    /\ sqlite_sequence = 0
    /\ prev = NoCall
    /\ ret = [status |-> "pending"]
    /\ \E transactions \in FilterInputs, text_search \in FilterTexts,
          transaction_type \in {PatternNone, "deposit", "withdrawal"},
          min_amount \in Optional(0..MaxAmount),
          max_amount \in Optional(0..MaxAmount),
          start_date \in Optional({date(2024, 1, 15), date(2024, 1, 20),
                                   date(2024, 1, 21)}),
          end_date \in Optional({date(2024, 1, 14), date(2024, 1, 15),
                                 date(2024, 1, 20)}) :
         call = [op |-> "filter_transactions",
                 transactions |-> transactions,
                 text_search |-> text_search,
                 transaction_type |-> transaction_type,
                 min_amount |-> min_amount, max_amount |-> max_amount,
                 start_date |-> start_date, end_date |-> end_date]

FilterTransactions ==
    /\ call.op = "filter_transactions"
    /\ ret.status = "pending"
    /\ ret' = [status |-> "returned",
               filtered |-> filter_transactions(call.transactions,
                                call.text_search, call.transaction_type,
                                call.min_amount, call.max_amount,
                                call.start_date, call.end_date)]
    /\ UNCHANGED <<db, sqlite_sequence, call, prev>>

NextFilter == FilterTransactions

SpecFilter == InitFilter /\ [][NextFilter]_vars

FilterReturned == call.op = "filter_transactions" /\ ret.status = "returned"

\* text occurs in field, letters compared without regard to case
OccursIgnoringCase(text, field) ==
    \E i \in 1..(Len(field) - Len(text) + 1) :
        \A k \in 1..Len(text) : lower(<<field[i + k - 1]>>) = lower(<<text[k]>>)

\* t satisfies every criterion supplied in the call
SatisfiesCriteria(t) ==
    /\ call.text_search # <<>> =>
         \/ OccursIgnoringCase(call.text_search, t.description)
         \/ OccursIgnoringCase(call.text_search, t.category)
         \/ OccursIgnoringCase(call.text_search, t.payee)
    /\ call.transaction_type # PatternNone => t.type = call.transaction_type
    /\ call.min_amount # <<>> => call.min_amount[1] <= t.amount
    /\ call.max_amount # <<>> => t.amount <= call.max_amount[1]
    /\ call.start_date # <<>> => call.start_date[1] <= t.date
    /\ call.end_date # <<>> => t.date <= call.end_date[1]

\* C23: filter_transactions returns exactly the input transactions that
\* satisfy every supplied criterion (case-insensitive substring of
\* description, category or payee; exact type; inclusive amount bounds;
\* inclusive date bounds) in their input order; an omitted criterion or an
\* empty search text restricts nothing, and with no criteria the input is
\* returned unchanged.
C23_FilterIsConjunction ==
    FilterReturned
    => /\ ret.filtered = SelectSeq(call.transactions, SatisfiesCriteria)
       /\ (/\ call.text_search = <<>> /\ call.transaction_type = PatternNone
           /\ call.min_amount = <<>> /\ call.max_amount = <<>>
           /\ call.start_date = <<>> /\ call.end_date = <<>>)
          => ret.filtered = call.transactions

C23_Witness ==
    /\ FilterReturned
    /\ Len(call.transactions) = 3
    /\ call.text_search = <<"A", "B">>
    /\ call.transaction_type = "withdrawal"
    /\ call.min_amount = <<2>> /\ call.max_amount = <<2>>
    /\ call.start_date = <<date(2024, 1, 20)>>
    /\ call.end_date = <<date(2024, 1, 20)>>
    /\ Len(ret.filtered) = 1
    /\ ret.filtered[1].payee = <<"a", "B">>

-----------------------------------------------------------------------------
(* TransactionService.create_transactions_batch                            *)

\* for transaction in transactions: try INSERT, on an exception continue.
\* The result holds the table and the created transactions with their ids.
RECURSIVE BatchLoop_break(_, _, _, _)
BatchLoop_break(rows, rowid, transactions, created) ==
    IF transactions = <<>> THEN [rows |-> rows, created |-> created]
    ELSE IF SchemaAccepts(InsertedRow(Head(transactions), rowid + 1))
    THEN BatchLoop_break(Append(rows, InsertedRow(Head(transactions), rowid + 1)),
                         rowid + 1, Tail(transactions),
                         Append(created, [Head(transactions) EXCEPT !.id = rowid + 1]))
    ELSE [rows |-> rows, created |-> created]

RECURSIVE BatchLoop(_, _, _, _)
BatchLoop(rows, rowid, transactions, created) ==
    IF transactions = <<>> THEN [rows |-> rows, created |-> created]
    ELSE IF SchemaAccepts(InsertedRow(Head(transactions), rowid + 1))
    THEN BatchLoop(Append(rows, InsertedRow(Head(transactions), rowid + 1)),
                   rowid + 1, Tail(transactions),
                   Append(created, [Head(transactions) EXCEPT !.id = rowid + 1]))
    ELSE BatchLoop(rows, rowid, Tail(transactions), created)

create_transactions_batch(rows, rowid, transactions) ==
    BatchLoop(rows, rowid, transactions, <<>>)

\* a template whose recurring_template_id was set after construction: the
\* table's CHECK rejects its INSERT
template_with_parent ==
    [id |-> None, date |-> date(2024, 1, 1), amount |-> 100, type |-> "deposit",
     description |-> "Weekly deposit", category |-> "Income", payee |-> "Employer",
     recurring_template_id |-> 1, is_template |-> TRUE,
     recurrence_pattern |-> "weekly"]

BatchItems == {TemplateWeekly, OneTime, template_with_parent}

Batches == UNION {[1..n -> BatchItems] : n \in 0..MaxBatch}

CreateTransactionsBatch ==
    \E transactions \in Batches :
      \E result \in {create_transactions_batch(db, sqlite_sequence, transactions)} :
        /\ Len(result.rows) <= MaxRows
        /\ db' = result.rows
        /\ sqlite_sequence' = sqlite_sequence + Len(result.created)
        /\ call' = [op |-> "create_transactions_batch",
                    transactions |-> transactions, rows_before |-> db]
        /\ ret' = [status |-> "returned", created |-> result.created]
        /\ prev' = NoCall

NextBatch == CreateTransactionsBatch

SpecBatch == Init /\ [][NextBatch]_vars

BatchReturned == call.op = "create_transactions_batch" /\ ret.status = "returned"

\* the items of the batch the table accepts, in input order
Storable(transactions) ==
    SelectSeq(transactions, LAMBDA t : SchemaAccepts(InsertedRow(t, 1)))

\* C27: create_transactions_batch skips an item whose storing fails and
\* still stores the items after it; it returns exactly the stored items, in
\* input order, each with an id, and a batch without a failing item is
\* stored and returned whole.
C27_BatchIsolatesFailures ==
    BatchReturned
    => LET stored == Storable(call.transactions)
           before == Len(call.rows_before)
       IN  /\ Len(ret.created) = Len(stored)
           /\ Len(db) = before + Len(stored)
           /\ SubSeq(db, 1, before) = call.rows_before
           /\ \A i \in 1..Len(stored) :
                /\ ret.created[i].id # None
                /\ [ret.created[i] EXCEPT !.id = None] = stored[i]
                /\ db[before + i] = InsertedRow(stored[i], ret.created[i].id)
           /\ \A i, j \in 1..Len(stored) :
                i < j => ret.created[i].id < ret.created[j].id
           /\ stored = call.transactions => Len(ret.created) = Len(call.transactions)

C27_Witness ==
    /\ BatchReturned
    /\ Len(call.transactions) = 3
    /\ call.transactions[2] = template_with_parent
    /\ Len(ret.created) = 2
    /\ ret.created[2].description = "Groceries"
    /\ db[Len(db)].description = "Groceries"


-----------------------------------------------------------------------------
(* Serialized bulk generation as the main window runs it, interleaved with *)
(* the creation of templates and one-time transactions.                    *)

SweepEnds == {date(2024, 1, 31), date(2024, 2, 29)}

SweepTransactions == {TemplateWeekly, TemplateMonthly, OneTime}

\* the rows a user entered: templates and one-time transactions
EnteredRows(rows) ==
    {i \in 1..Len(rows) : rows[i].recurring_template_id = None}

\* the bulk call persists every instance it generates, the flag handed on
\* unchanged to generate_instances
generate_all_instances_up_to_regenerating(rows, rowid, templates, end_date, regenerate_existing) ==
    BulkLoop(rows, rowid, templates, end_date, TRUE, MaxTemplates * MaxInserts)

generate_all_instances_up_to(rows, rowid, templates, end_date, regenerate_existing) ==
    BulkLoop(rows, rowid, templates, end_date, regenerate_existing,
             MaxTemplates * MaxInserts)

\* TransactionService.create_transaction, for a template or a one-time
\* transaction
EnterTransaction ==
    \E transaction \in SweepTransactions :
        /\ Cardinality(EnteredRows(db)) < MaxTemplates
        /\ Transaction_validate(transaction) = ""
        /\ SchemaAccepts(InsertedRow(transaction, sqlite_sequence + 1))
        /\ db' = Append(db, InsertedRow(transaction, sqlite_sequence + 1))
        /\ sqlite_sequence' = sqlite_sequence + 1
        /\ call' = [op |-> "create_transaction"]
        /\ ret' = [status |-> "returned", id |-> sqlite_sequence + 1]
        /\ prev' = NoCall

\* MainWindow._generate_recurring_instances: one bulk call that runs to its
\* end before the next operation starts; prev keeps the call before it
GenerateRecurringInstances ==
    \E end_date \in SweepEnds :
      \E templates \in get_template_transactions(db) :
        \E result \in {generate_all_instances_up_to(db, sqlite_sequence,
                                                    templates, end_date, FALSE)} :
            /\ result.status = "returned"
            /\ db' = result.rows
            /\ sqlite_sequence' = sqlite_sequence + (Len(result.rows) - Len(db))
            /\ call' = [op |-> "generate_all_instances_up_to",
                        end_date |-> end_date,
                        regenerate_existing |-> FALSE,
                        rows_before |-> db]
            /\ ret' = [status |-> "returned",
                       instances |-> SubSeq(result.rows, Len(db) + 1,
                                            Len(result.rows))]
            /\ prev' = IF call.op = "generate_all_instances_up_to"
                       THEN [op |-> call.op, end_date |-> call.end_date]
                       ELSE NoCall

NextSweep ==
    \/ EnterTransaction
    \/ GenerateRecurringInstances

SpecSweep == Init /\ [][NextSweep]_vars

\* two stored instances of one template on one date
DuplicateInstanceOfAny ==
    \E i, j \in 1..Len(db) :
        /\ i # j
        /\ db[i].recurring_template_id # None
        /\ db[i].recurring_template_id = db[j].recurring_template_id
        /\ db[i].date = db[j].date

\* the bulk call directly follows a bulk call with the same end date
RepeatedSweep ==
    /\ call.op = "generate_all_instances_up_to"
    /\ prev.op = "generate_all_instances_up_to"
    /\ prev.end_date = call.end_date

\* C28: whatever serialized generate_all_instances_up_to(end_date,
\* regenerate_existing = False) calls, with equal or growing end dates, are
\* interleaved with the creation of templates and one-time transactions,
\* the store never holds two instances of one template on one date, and a
\* call that repeats the end date of the call just before it persists
\* nothing and returns an empty list.
C28_SerializedSweepsIdempotent ==
    /\ ~DuplicateInstanceOfAny
    /\ RepeatedSweep => (ret.instances = <<>> /\ db = call.rows_before)

\* a repeated call over a store that already holds the instances of two
\* templates, the second of them entered after an earlier bulk call
C28_Witness ==
    /\ RepeatedSweep
    /\ call.end_date = date(2024, 1, 31)
    /\ ret.instances = <<>>
    /\ \E i, j, k \in 1..Len(db) :
         /\ db[i].recurring_template_id # None
         /\ db[j].recurring_template_id # None
         /\ db[i].recurring_template_id # db[j].recurring_template_id
         /\ i < k /\ db[k].is_template = 1


-----------------------------------------------------------------------------
(* The weekly balances account for the transactions of the month.          *)

\* the stored rows dated from first to last, templates left out
RowsWithin(first, last) ==
    {i \in 1..Len(db) : /\ db[i].is_template = 0
                        /\ first <= fromisoformat(db[i].date)
                        /\ fromisoformat(db[i].date) <= last}

\* the weeks whose days include the date of row i
WeeksHolding(i) ==
    {k \in 1..Len(ret.weeks) :
        /\ ret.weeks[k].week_start <= fromisoformat(db[i].date)
        /\ fromisoformat(db[i].date) <= ret.weeks[k].week_end}

\* C29: in the weekly balances of a month every stored non-template
\* transaction dated in the month is counted in exactly one week, and no
\* template and no transaction dated outside the month is counted in any:
\* each week's net change is the signed sum of the non-template
\* transactions dated in that week, the net changes add up to the signed
\* sum of the month's non-template transactions, and the last week's ending
\* balance is the balance up to the last day of the month.
C29_WeeksCountEachTransactionOnce ==
    WeeklyReturned
    => LET w == ret.weeks
           month_start == date(call.year, call.month, 1)
           month_end == date(call.year, call.month,
                             DaysInMonth(call.year, call.month))
       IN  /\ \A i \in RowsWithin(month_start, month_end) :
                Cardinality(WeeksHolding(i)) = 1
           /\ \A k \in 1..Len(w) :
                /\ month_start <= w[k].week_start
                /\ w[k].week_end <= month_end
                /\ w[k].net_change
                       = SignedSum(RowsWithin(w[k].week_start, w[k].week_end))
           /\ SumNetChange(w) = SignedSum(RowsWithin(month_start, month_end))
           /\ w[Len(w)].ending_balance
                  = calculate_balance_up_to_date(db, month_end)

\* January 2024 over a store that holds a template dated in the month and
\* two transactions in different weeks of the month
C29_Witness ==
    /\ WeeklyReturned
    /\ call.year = 2024 /\ call.month = 1
    /\ \E i \in 1..Len(db) :
         db[i].is_template = 1 /\ fromisoformat(db[i].date) = date(2024, 1, 1)
    /\ ret.weeks[1].net_change = 0 - 30
    /\ ret.weeks[Len(ret.weeks)].net_change = 70
    /\ SumNetChange(ret.weeks) = 40


-----------------------------------------------------------------------------
(* Creating, updating and deleting stored transactions.                    *)

\* TransactionService.update_transaction: an UPDATE of every column of the
\* row with the object's id, bound from the object's fields as they are
update_transaction(rows, transaction) ==
    IF transaction.id = None
    THEN [status |-> "raised", error |-> "ValueError", rows |-> rows]
    ELSE IF /\ \E i \in 1..Len(rows) : rows[i].id = transaction.id
            /\ ~SchemaAccepts(InsertedRow(transaction, transaction.id))
    THEN [status |-> "raised", error |-> "IntegrityError", rows |-> rows]
    ELSE [status |-> "returned",
          rows |-> [i \in 1..Len(rows) |->
                       IF rows[i].id = transaction.id
                       THEN InsertedRow(transaction, transaction.id)
                       ELSE rows[i]]]

\* TransactionService.delete_transaction
delete_transaction(rows, transaction_id) ==
    [deleted |-> \E i \in 1..Len(rows) : rows[i].id = transaction_id,
     rows |-> SelectSeq(rows, LAMBDA r : r.id # transaction_id)]

CrudTransactions == {TemplateWeekly, OneTime}

CrudBatches == UNION {[1..n -> BatchItems] : n \in 0..2}

\* the amounts a caller assigns to a held object
EditedAmounts == {200, 0 - 5}

\* a held object after one of its fields was assigned
Edits(t) ==
    {[t EXCEPT !.amount = a] : a \in EditedAmounts}
        \cup {[t EXCEPT !.description = "Updated"],
              [t EXCEPT !.recurrence_pattern = "weekly"],
              [t EXCEPT !.recurrence_pattern = PatternNone],
              [t EXCEPT !.is_template = ~t.is_template],
              [t EXCEPT !.recurring_template_id = 1]}

\* the objects a caller holds: those create_transaction returned, under any
\* id handed out so far, and one never stored
HeldTransactions ==
    {[t EXCEPT !.id = k] : t \in CrudTransactions, k \in 1..sqlite_sequence}
        \cup {OneTime}

\* TransactionService.create_transaction
CrudCreateTransaction ==
    \E transaction \in CrudTransactions :
        /\ Len(db) < MaxStored
        /\ sqlite_sequence < MaxIds
        /\ Transaction_validate(transaction) = ""
        /\ SchemaAccepts(InsertedRow(transaction, sqlite_sequence + 1))
        /\ db' = Append(db, InsertedRow(transaction, sqlite_sequence + 1))
        /\ sqlite_sequence' = sqlite_sequence + 1
        /\ call' = [op |-> "create_transaction"]
        /\ ret' = [status |-> "returned", id |-> sqlite_sequence + 1]
        /\ prev' = NoCall

\* TransactionService.create_transactions_batch
CrudCreateTransactionsBatch ==
    \E transactions \in CrudBatches :
      \E result \in {create_transactions_batch(db, sqlite_sequence, transactions)} :
        /\ Len(result.rows) <= MaxStored
        /\ sqlite_sequence + Len(result.created) <= MaxIds
        /\ db' = result.rows
        /\ sqlite_sequence' = sqlite_sequence + Len(result.created)
        /\ call' = [op |-> "create_transactions_batch"]
        /\ ret' = [status |-> "returned", created |-> Len(result.created)]
        /\ prev' = NoCall

\* TransactionService.update_transaction, of a held object or of one whose
\* field was assigned after it was constructed
UpdateTransaction ==
    \E held \in HeldTransactions :
      \E transaction \in {held} \cup Edits(held) :
        \E result \in {update_transaction(db, transaction)} :
            /\ db' = result.rows
            /\ call' = [op |-> "update_transaction", id |-> transaction.id]
            /\ ret' = [status |-> result.status]
            /\ UNCHANGED sqlite_sequence
            /\ prev' = NoCall

\* TransactionService.delete_transaction
DeleteTransaction ==
    \E transaction_id \in 1..(sqlite_sequence + 1) :
      \E result \in {delete_transaction(db, transaction_id)} :
        /\ db' = result.rows
        /\ call' = [op |-> "delete_transaction", transaction_id |-> transaction_id]
        /\ ret' = [status |-> "returned", deleted |-> result.deleted]
        /\ UNCHANGED sqlite_sequence
        /\ prev' = NoCall

NextCrud ==
    \/ CrudCreateTransaction
    \/ CrudCreateTransactionsBatch
    \/ UpdateTransaction
    \/ DeleteTransaction

SpecCrud == Init /\ [][NextCrud]_vars

\* the entity invariants, read on a stored row
EntityInvariants(row) ==
    /\ row.amount > 0
    /\ row.is_template = 1
         => (row.recurring_template_id = None /\ row.recurrence_pattern # PatternNone)
    /\ row.is_template = 0 => row.recurrence_pattern = PatternNone

\* C30: after any sequence of create_transaction, create_transactions_batch,
\* update_transaction and delete_transaction calls every stored row has a
\* positive amount, a template row has no recurring_template_id and has a
\* recurrence pattern, and a non-template row has no recurrence pattern;
\* update_transaction in particular never stores a row that breaks this.
C30_PersistedRowsValid ==
    \A i \in 1..Len(db) : EntityInvariants(db[i])

=============================================================================
